---- MODULE Spec2Model ----
(***************************************************************************)
(* A FastAPI user-authentication service: registration                     *)
(* (POST /users), login (POST /token) and identity resolution (GET /me),   *)
(* over a credential store, a password hasher (passlib bcrypt) and a       *)
(* signed-token codec (python-jose, HS256).                                *)
(*                                                                         *)
(* Time is counted in minutes, the unit of ACCESS_TOKEN_EXPIRE_MINUTES.    *)
(***************************************************************************)
EXTENDS Integers, FiniteSets, Sequences, TLC

\* ------------------------------------------------------------------ bounds
Usernames == {"alice", "bob"}
Passwords == {"S3curePass!", "hunter2"}
Salts == {"saltA", "saltB"}
\* the clock advances by these steps and stops at MaxClock
TickSteps == {30, 31}
MaxClock == 31
\* create_user requests that have passed the existence check and not yet committed
MaxPending == 2
\* time-to-live values handed to create_access_token directly (NoTtl: omitted)
NoTtl == -1
Ttls == {NoTtl, 0, 1, 30, 31}

\* ----------------------------------------------------------- configuration
SECRET_KEY == "change-this-in-env"
ALGORITHM == "HS256"
ACCESS_TOKEN_EXPIRE_MINUTES == 30
\* a signing key that is not the process secret
OtherKey == "attacker-key"

VARIABLES
    store,     \* the users table: a set of rows [id, username, hashed_password]
    clock,     \* the wall clock, in minutes
    pending,   \* create_user requests between their existence check and their commit
    issued,    \* the tokens login has handed out so far (held by clients, not by the server)
    last,      \* the most recently answered request with its response
    codec      \* a token made by a direct call of create_access_token, and its last decoding

vars == <<store, clock, pending, issued, last, codec>>

\* ------------------------------------------------------------ PasswordHasher
NoHash == [scheme |-> "none", salt |-> "", digest |-> <<>>]

\* the bcrypt digest of a password under a salt: an injective function of both
Bcrypt(password, salt) == <<"bcrypt", salt, password>>

hash_password_with(password, salt) ==
    [scheme |-> "bcrypt", salt |-> salt, digest |-> Bcrypt(password, salt)]

\* pwd_context.hash draws a fresh random salt: the set of its possible results
hash_password(password) == {hash_password_with(password, s) : s \in Salts}

\* verify_password recomputing under a fixed salt instead of the embedded one
verify_password_fixedsalt(plain_password, hashed_password) ==
    IF hashed_password.scheme /= "bcrypt"
    THEN [raised |-> TRUE, value |-> FALSE]
    ELSE [raised |-> FALSE,
          value |-> (Bcrypt(plain_password, "saltA") = hashed_password.digest)]

\* verify_password catching the hasher's error and reporting a mismatch
verify_password_swallow(plain_password, hashed_password) ==
    [raised |-> FALSE,
     value |-> /\ hashed_password.scheme = "bcrypt"
               /\ Bcrypt(plain_password, hashed_password.salt) = hashed_password.digest]

\* pwd_context.verify: raises (UnknownHashError) on a hash it cannot identify as
\* bcrypt, otherwise recomputes the digest under the embedded salt and compares
verify_password(plain_password, hashed_password) ==
    IF hashed_password.scheme /= "bcrypt"
    THEN [raised |-> TRUE, value |-> FALSE]
    ELSE [raised |-> FALSE,
          value |-> (Bcrypt(plain_password, hashed_password.salt) = hashed_password.digest)]

\* ---------------------------------------------------------------- TokenCodec
NoSub == "<no sub>"
NoSig == [sub |-> NoSub, exp |-> 0, key |-> "", alg |-> "", flipped |-> FALSE]

\* HMAC-SHA256 of the payload under a key: a function of payload and key
Sign(sub, exp, key) ==
    [sub |-> sub, exp |-> exp, key |-> key, alg |-> ALGORITHM, flipped |-> FALSE]

\* jwt.encode: header.payload.signature
jwt_encode(sub, exp, key) ==
    [kind |-> "jwt", sub |-> sub, exp |-> exp, sig |-> Sign(sub, exp, key)]

NoToken == [kind |-> "none", sub |-> NoSub, exp |-> 0, sig |-> NoSig]
Garbage == [kind |-> "garbage", sub |-> NoSub, exp |-> 0, sig |-> NoSig]

\* `expires_delta or timedelta(minutes=ACCESS_TOKEN_EXPIRE_MINUTES)`: Python's `or`
\* takes the default when expires_delta is None and also when it is falsy, and
\* timedelta(0) is falsy
EffectiveTtl(expires_delta) ==
    IF expires_delta = NoTtl \/ expires_delta = 0
    THEN ACCESS_TOKEN_EXPIRE_MINUTES
    ELSE expires_delta

create_access_token(subject, expires_delta, now) ==
    jwt_encode(subject, now + EffectiveTtl(expires_delta), SECRET_KEY)

\* decode_token with signature verification switched off
decode_token_nosig(token, now) ==
    IF token.kind /= "jwt"
    THEN [ok |-> FALSE, err |-> "MalformedToken", sub |-> NoSub]
    ELSE IF token.exp < now
    THEN [ok |-> FALSE, err |-> "Expired", sub |-> NoSub]
    ELSE [ok |-> TRUE, err |-> "", sub |-> token.sub]

\* decode_token with expiry validation switched off
decode_token_noexp(token, now) ==
    IF token.kind /= "jwt"
    THEN [ok |-> FALSE, err |-> "MalformedToken", sub |-> NoSub]
    ELSE IF token.sig /= Sign(token.sub, token.exp, SECRET_KEY)
    THEN [ok |-> FALSE, err |-> "InvalidSignature", sub |-> NoSub]
    ELSE [ok |-> TRUE, err |-> "", sub |-> token.sub]

\* jwt.decode: parse, verify the signature, then validate exp (exp < now is expired).
\* Every failure is a JWTError.
decode_token(token, now) ==
    IF token.kind /= "jwt"
    THEN [ok |-> FALSE, err |-> "MalformedToken", sub |-> NoSub]
    ELSE IF token.sig /= Sign(token.sub, token.exp, SECRET_KEY)
    THEN [ok |-> FALSE, err |-> "InvalidSignature", sub |-> NoSub]
    ELSE IF token.exp < now
    THEN [ok |-> FALSE, err |-> "Expired", sub |-> NoSub]
    ELSE [ok |-> TRUE, err |-> "", sub |-> token.sub]

\* ---------------------------------------------------------- credential store
NoneUser == [id |-> 0, username |-> "<none>", hashed_password |-> NoHash]

\* db.query(User).filter(User.username == username).first(): the matching row
\* with the least id, or None
get_user_by_username(db, username) ==
    LET rows == {r \in db : r.username = username}
    IN  IF rows = {} THEN NoneUser
        ELSE CHOOSE r \in rows : \A q \in rows : r.id <= q.id

\* the id the table gives a new row: one more than the greatest id in use
NextId(db) ==
    IF db = {} THEN 1
    ELSE (CHOOSE r \in db : \A q \in db : q.id <= r.id).id + 1

\* db.add(user); db.commit(): the store refuses a row whose username is taken
\* (DuplicateUsername), otherwise inserts it under a fresh id
db_commit(db, username, hashed_password) ==
    IF \E r \in db : r.username = username
    THEN [raised |-> TRUE, db |-> db, user |-> NoneUser]
    ELSE LET user == [id |-> NextId(db), username |-> username,
                      hashed_password |-> hashed_password]
         IN  [raised |-> FALSE, db |-> db \cup {user}, user |-> user]

\* ------------------------------------------------------------------ schemas
NoBody == [kind |-> "none"]

\* the whole User row serialized, with no response_model filtering it
UserRead_unfiltered(user) ==
    [kind |-> "UserRead", id |-> user.id, username |-> user.username,
     hashed_password |-> user.hashed_password]

\* response_model=UserRead: id and username only
UserRead(user) == [kind |-> "UserRead", id |-> user.id, username |-> user.username]

\* the login body, {"access_token": token, "token_type": "bearer"}
Token(access_token) ==
    [kind |-> "Token", access_token |-> access_token, token_type |-> "bearer"]

NoHeaders == "<none>"

Response(status, detail, headers, body) ==
    [status |-> status, detail |-> detail, headers |-> headers, body |-> body]

\* what the framework answers when a handler raises something that is no HTTPException
InternalServerError == Response(500, "Internal Server Error", NoHeaders, NoBody)

\* --------------------------------------------------------------- Authenticator
\* `if not user or not verify_password(...)`: the lookup decides first, and an
\* error of verify_password is not caught
authenticate_user(db, username, password) ==
    LET user == get_user_by_username(db, username)
    IN  IF user = NoneUser
        THEN [raised |-> FALSE, user |-> NoneUser]
        ELSE LET v == verify_password(password, user.hashed_password)
             IN  IF v.raised THEN [raised |-> TRUE, user |-> NoneUser]
                 ELSE IF ~v.value THEN [raised |-> FALSE, user |-> NoneUser]
                 ELSE [raised |-> FALSE, user |-> user]

\* ------------------------------------------------------------ IdentityResolver
\* get_current_user looking the claimed subject up before verifying the token
get_current_user_lookupfirst(token, db, now) ==
    IF token.kind = "none"
    THEN Response(401, "Not authenticated", "WWW-Authenticate: Bearer", NoBody)
    ELSE IF token.kind = "jwt" /\ token.sub /= NoSub
            /\ get_user_by_username(db, token.sub) = NoneUser
    THEN Response(404, "User not found", NoHeaders, NoBody)
    ELSE LET payload == decode_token(token, now)
         IN  IF ~payload.ok
             THEN Response(401, "Invalid or expired token", NoHeaders, NoBody)
             ELSE IF payload.sub = NoSub
             THEN Response(401, "Invalid token payload", NoHeaders, NoBody)
             ELSE Response(200, "", NoHeaders,
                           UserRead(get_user_by_username(db, payload.sub)))

\* get_current_user without the check that the payload has a subject
get_current_user_nosubcheck(token, db, now) ==
    IF token.kind = "none"
    THEN Response(401, "Not authenticated", "WWW-Authenticate: Bearer", NoBody)
    ELSE LET payload == decode_token(token, now)
         IN  IF ~payload.ok
             THEN Response(401, "Invalid or expired token", NoHeaders, NoBody)
             ELSE LET user == get_user_by_username(db, payload.sub)
                  IN  IF user = NoneUser
                      THEN Response(404, "User not found", NoHeaders, NoBody)
                      ELSE Response(200, "", NoHeaders, UserRead(user))

\* get_current_user with a handler that catches every exception of the try
\* block, the 401 for a missing subject included, and rewrites it
get_current_user_catchall(token, db, now) ==
    IF token.kind = "none"
    THEN Response(401, "Not authenticated", "WWW-Authenticate: Bearer", NoBody)
    ELSE LET payload == decode_token(token, now)
         IN  IF ~payload.ok \/ payload.sub = NoSub
             THEN Response(401, "Invalid or expired token", NoHeaders, NoBody)
             ELSE LET user == get_user_by_username(db, payload.sub)
                  IN  IF user = NoneUser
                      THEN Response(404, "User not found", NoHeaders, NoBody)
                      ELSE Response(200, "", NoHeaders, UserRead(user))

\* get_current_user reporting a missing account as a token failure
get_current_user_missing401(token, db, now) ==
    IF token.kind = "none"
    THEN Response(401, "Not authenticated", "WWW-Authenticate: Bearer", NoBody)
    ELSE LET payload == decode_token(token, now)
         IN  IF ~payload.ok
             THEN Response(401, "Invalid or expired token", NoHeaders, NoBody)
             ELSE IF payload.sub = NoSub
             THEN Response(401, "Invalid token payload", NoHeaders, NoBody)
             ELSE LET user == get_user_by_username(db, payload.sub)
                  IN  IF user = NoneUser
                      THEN Response(401, "Invalid or expired token", NoHeaders, NoBody)
                      ELSE Response(200, "", NoHeaders, UserRead(user))

\* get_current_user, with oauth2_scheme in front of it (no Authorization header:
\* 401 before the body runs). The result is the response of GET /me.
get_current_user(token, db, now) ==
    IF token.kind = "none"
    THEN Response(401, "Not authenticated", "WWW-Authenticate: Bearer", NoBody)
    ELSE LET payload == decode_token(token, now)
         IN  IF ~payload.ok
             THEN Response(401, "Invalid or expired token", NoHeaders, NoBody)
             ELSE IF payload.sub = NoSub
             THEN Response(401, "Invalid token payload", NoHeaders, NoBody)
             ELSE LET user == get_user_by_username(db, payload.sub)
                  IN  IF user = NoneUser
                      THEN Response(404, "User not found", NoHeaders, NoBody)
                      ELSE Response(200, "", NoHeaders, UserRead(user))

\* login telling an unknown username from a wrong password
login_response_enum(db, username, password, now) ==
    LET auth == authenticate_user(db, username, password)
    IN  IF auth.raised THEN InternalServerError
        ELSE IF get_user_by_username(db, username) = NoneUser
        THEN Response(404, "User not found", NoHeaders, NoBody)
        ELSE IF auth.user = NoneUser
        THEN Response(401, "Incorrect username or password",
                      "WWW-Authenticate: Bearer", NoBody)
        ELSE Response(200, "", NoHeaders,
                      Token(create_access_token(auth.user.username,
                                                ACCESS_TOKEN_EXPIRE_MINUTES, now)))

\* login without the `if not user` check, issuing for the submitted username
login_response_noauth(db, username, password, now) ==
    LET auth == authenticate_user(db, username, password)
    IN  IF auth.raised THEN InternalServerError
        ELSE Response(200, "", NoHeaders,
                      Token(create_access_token(username,
                                                ACCESS_TOKEN_EXPIRE_MINUTES, now)))

\* POST /token
login_response(db, username, password, now) ==
    LET auth == authenticate_user(db, username, password)
    IN  IF auth.raised THEN InternalServerError
        ELSE IF auth.user = NoneUser
        THEN Response(401, "Incorrect username or password",
                      "WWW-Authenticate: Bearer", NoBody)
        ELSE Response(200, "", NoHeaders,
                      Token(create_access_token(auth.user.username,
                                                ACCESS_TOKEN_EXPIRE_MINUTES, now)))

\* POST /users, first half (users.py 15-17): the existence check
create_user_check(db, username) ==
    IF get_user_by_username(db, username) /= NoneUser
    THEN Response(400, "Username already taken", NoHeaders, NoBody)
    ELSE Response(0, "", NoHeaders, NoBody)

\* create_user whose insert goes through although the request then fails
create_user_commit_failafter(db, username, hashed_password) ==
    LET user == [id |-> NextId(db), username |-> username,
                 hashed_password |-> hashed_password]
    IN  IF \E r \in db : r.username = username
        THEN [db |-> db \cup {user}, resp |-> InternalServerError]
        ELSE [db |-> db \cup {user}, resp |-> Response(201, "", NoHeaders, UserRead(user))]

\* POST /users, second half (users.py 18-22): insert and answer 201; an error of
\* db.commit() is not caught
create_user_commit(db, username, hashed_password) ==
    LET c == db_commit(db, username, hashed_password)
    IN  IF c.raised
        THEN [db |-> db, resp |-> InternalServerError]
        ELSE [db |-> c.db, resp |-> Response(201, "", NoHeaders, UserRead(c.user))]

\* ------------------------------------------------------------ requests, state
Answered(op, username, password, token, now, resp) ==
    [op |-> op, username |-> username, password |-> password, token |-> token,
     now |-> now, resp |-> resp]

NoRequest == Answered("none", "", "", NoToken, 0, Response(0, "", NoHeaders, NoBody))

NoCodec ==
    [state |-> "none", subject |-> "", ttl |-> NoTtl, at |-> 0, token |-> NoToken,
     now |-> 0, result |-> [ok |-> FALSE, err |-> "", sub |-> NoSub]]

\* a valid token with its signature segment altered
Tamper(t) == [t EXCEPT !.sig.flipped = TRUE]

\* a valid token with its payload rewritten to another subject, signature kept
Resubject(t, u) == [t EXCEPT !.sub = u]

\* well-formed tokens this service never issued, signed with another key
Forged(now) ==
    {jwt_encode(u, now + ACCESS_TOKEN_EXPIRE_MINUTES, OtherKey) : u \in Usernames}

\* tokens signed with the process secret by someone other than login (any other
\* holder of the secret), with or without a subject claim
Minted(now) ==
    {jwt_encode(u, now + ACCESS_TOKEN_EXPIRE_MINUTES, SECRET_KEY) :
        u \in Usernames \cup {NoSub}}

\* what a GET /me request may carry in its Authorization header
TokenInputs ==
    {NoToken, Garbage} \cup issued \cup {Tamper(t) : t \in issued}
    \cup {Resubject(t, u) : t \in issued, u \in Usernames}
    \cup Forged(clock) \cup Minted(clock)

Init ==
    /\ store = {}
    /\ clock = 0
    /\ pending = {}
    /\ issued = {}
    /\ last = NoRequest
    /\ codec = NoCodec

\* POST /users up to the existence check
CreateCheck(u, p) ==
    LET r == create_user_check(store, u)
    IN  /\ IF r.status = 400
           THEN /\ last' = Answered("create", u, p, NoToken, clock, r)
                /\ pending' = pending
           ELSE /\ Cardinality(pending) < MaxPending
                /\ [username |-> u, password |-> p] \notin pending
                /\ pending' = pending \cup {[username |-> u, password |-> p]}
                /\ last' = last
        /\ UNCHANGED <<store, clock, issued, codec>>

\* POST /users from the hashing to the answer
CreateCommit(r, h) ==
    LET c == create_user_commit(store, r.username, h)
    IN  /\ r \in pending
        /\ h \in hash_password(r.password)
        /\ store' = c.db
        /\ pending' = pending \ {r}
        /\ last' = Answered("create", r.username, r.password, NoToken, clock, c.resp)
        /\ UNCHANGED <<clock, issued, codec>>

\* POST /token
Login(u, p) ==
    LET r == login_response(store, u, p, clock)
    IN  /\ last' = Answered("login", u, p, NoToken, clock, r)
        /\ issued' = IF r.body.kind = "Token"
                     THEN issued \cup {r.body.access_token} ELSE issued
        /\ UNCHANGED <<store, clock, pending, codec>>

\* GET /me
ReadMe(t) ==
    /\ t \in TokenInputs
    /\ last' = Answered("me", "", "", t, clock, get_current_user(t, store, clock))
    /\ UNCHANGED <<store, clock, pending, issued, codec>>

\* time passes
Tick(d) ==
    /\ clock + d <= MaxClock
    /\ clock' = clock + d
    /\ UNCHANGED <<store, pending, issued, last, codec>>

Next ==
    \/ \E u \in Usernames, p \in Passwords : CreateCheck(u, p)
    \/ \E r \in pending, h \in UNION {hash_password(p) : p \in Passwords} : CreateCommit(r, h)
    \/ \E u \in Usernames, p \in Passwords : Login(u, p)
    \/ \E t \in TokenInputs : ReadMe(t)
    \/ \E d \in TickSteps : Tick(d)

Spec == Init /\ [][Next]_vars

\* --------------------------------------------- the codec called on its own
\* create_access_token(s, ttl) at the current time
CodecIssue(s, ttl) ==
    /\ codec.state = "none"
    /\ codec' = [NoCodec EXCEPT !.state = "issued", !.subject = s, !.ttl = ttl,
                                !.at = clock, !.now = clock,
                                !.token = create_access_token(s, ttl, clock)]
    /\ UNCHANGED <<store, clock, pending, issued, last>>

\* decode_token of that token at the current time
CodecDecode ==
    /\ codec.state /= "none"
    /\ codec' = [codec EXCEPT !.state = "decoded", !.now = clock,
                              !.result = decode_token(codec.token, clock)]
    /\ UNCHANGED <<store, clock, pending, issued, last>>

NextCodec ==
    \/ \E s \in Usernames, ttl \in Ttls : CodecIssue(s, ttl)
    \/ CodecDecode
    \/ \E d \in TickSteps : Tick(d)

SpecCodec == Init /\ [][NextCodec]_vars

\* ------------------------------- a store whose rows were not all written by
\* create_user: hashes of a scheme the context does not support, or cut short
MalformedHashes ==
    {[scheme |-> "md5_crypt", salt |-> "saltA", digest |-> <<"md5", "saltA", "hunter2">>],
     [scheme |-> "corrupt", salt |-> "", digest |-> <<>>]}

StoredHashes == MalformedHashes \cup UNION {hash_password(p) : p \in Passwords}

InitCorrupt ==
    /\ store \in {{}} \cup
           {{[id |-> 1, username |-> u, hashed_password |-> h]} :
               u \in Usernames, h \in StoredHashes}
    /\ clock = 0
    /\ pending = {}
    /\ issued = {}
    /\ last = NoRequest
    /\ codec = NoCodec

SpecCorrupt == InitCorrupt /\ [][Next]_vars

\* ------------------------- accounts removed from the store behind the service
\* rows are removed only while every id in use is below MaxId
MaxId == 2

\* an account is deleted from the users table (the service has no route for it)
DeleteUser(r) ==
    /\ r \in store
    /\ \A q \in store : q.id < MaxId
    /\ store' = store \ {r}
    /\ UNCHANGED <<clock, pending, issued, last, codec>>

\* the service's operations, with clients presenting the tokens login gave them,
\* and accounts being removed
NextEnv ==
    \/ \E u \in Usernames, p \in Passwords : CreateCheck(u, p)
    \/ \E r \in pending, h \in UNION {hash_password(p) : p \in Passwords} : CreateCommit(r, h)
    \/ \E u \in Usernames, p \in Passwords : Login(u, p)
    \/ \E t \in issued : ReadMe(t)
    \/ \E d \in TickSteps : Tick(d)
    \/ \E r \in store : DeleteUser(r)

SpecEnv == Init /\ [][NextEnv]_vars

\* ======================================================================
\* Properties
\* ======================================================================

\* the token was signed with the process secret over its own payload and its
\* signature segment is intact
SignedWithSecret(t) ==
    /\ t.kind = "jwt"
    /\ t.sig.key = SECRET_KEY
    /\ ~t.sig.flipped
    /\ t.sig.sub = t.sub
    /\ t.sig.exp = t.exp

\* the token verifies at time now
TokenValid(t, now) == SignedWithSecret(t) /\ now <= t.exp

Rows(db, u) == {r \in db : r.username = u}

\* C1: GET /me returns an identity only for a token signed with the process
\* secret, unexpired at request time, whose subject is the username of the stored
\* user returned; a request with no token, a garbage token, a token with an
\* altered signature segment or a token signed with another key is answered 401,
\* also when its subject exists and its expiry lies in the future.
C1_OnlyGenuineTokensResolve ==
    last.op = "me" =>
        /\ last.resp.status = 200 =>
              /\ TokenValid(last.token, last.now)
              /\ last.resp.body.kind = "UserRead"
              /\ last.resp.body.username = last.token.sub
              /\ \E r \in store : r.id = last.resp.body.id /\ r.username = last.token.sub
        /\ (\/ last.token.kind /= "jwt"
            \/ last.token.sig.flipped
            \/ last.token.sig.key /= SECRET_KEY) => last.resp.status = 401

C1_Witness ==
    /\ last.op = "me"
    /\ last.token.kind = "jwt"
    /\ last.token.sig.key = OtherKey
    /\ last.token.exp > last.now
    /\ Rows(store, last.token.sub) /= {}
    /\ last.resp.status = 401

\* C2: decode_token(create_access_token(s, ttl)) yields s at every time before
\* ttl has elapsed since issuance and fails as Expired at every time after it has
\* elapsed, for every ttl that is passed, zero included.
C2_RoundTripUntilTtl ==
    (codec.state = "decoded" /\ codec.ttl /= NoTtl) =>
        /\ codec.now < codec.at + codec.ttl =>
              codec.result.ok /\ codec.result.sub = codec.subject
        /\ codec.now > codec.at + codec.ttl =>
              ~codec.result.ok /\ codec.result.err = "Expired"

\* C3: get_current_user verifies the token first and answers 401 on any token
\* failure whatever the store holds; only for a verified subject s does it look
\* s up, answering with the stored user named s, or 404 (not 401) when there is
\* none.
C3_VerifyThenLookup ==
    [][(last' /= last /\ last'.op = "me") =>
          LET t == last'.token
          IN  /\ ~TokenValid(t, clock) => last'.resp.status = 401
              /\ (TokenValid(t, clock) /\ t.sub /= NoSub) =>
                    IF Rows(store, t.sub) = {}
                    THEN last'.resp.status = 404
                    ELSE /\ last'.resp.status = 200
                         /\ \E r \in Rows(store, t.sub) : last'.resp.body = UserRead(r)]_vars

C3_Witness ==
    /\ last.op = "me"
    /\ TokenValid(last.token, last.now)
    /\ last.resp.status = 404
    /\ store /= {}

\* C4: a failing login names no reason: for a username absent from the store and
\* for an existing username with a wrong password authenticate_user returns the
\* same None, and the route answers with the same status, detail and header.
C4_LoginFailuresAlike ==
    /\ \A u1 \in Usernames, u2 \in Usernames, p1 \in Passwords, p2 \in Passwords :
          (/\ Rows(store, u1) = {}
           /\ \E r \in Rows(store, u2) : r.hashed_password \in StoredHashes \ hash_password(p2))
          => /\ authenticate_user(store, u1, p1) = authenticate_user(store, u2, p2)
             /\ ~authenticate_user(store, u1, p1).raised
             /\ authenticate_user(store, u1, p1).user = NoneUser
             /\ login_response(store, u1, p1, clock).status = 401
             /\ login_response(store, u1, p1, clock) = login_response(store, u2, p2, clock)
    /\ (last.op = "login" /\ last.resp.status /= 200) =>
          last.resp = Response(401, "Incorrect username or password",
                               "WWW-Authenticate: Bearer", NoBody)

C4_Witness ==
    /\ last.op = "login"
    /\ last.resp.status = 401
    /\ Rows(store, last.username) /= {}
    /\ \E u \in Usernames : Rows(store, u) = {}

\* C5: under every interleaving of concurrent create_user requests the store
\* never holds two credentials with one username, and a create_user request is
\* answered 201 (its row then being in the store) or 400, nothing else.
C5_CreateAnswers201Or400 ==
    /\ \A r \in store, q \in store : r.username = q.username => r = q
    /\ last.op = "create" =>
          \/ last.resp.status = 400
          \/ /\ last.resp.status = 201
             /\ \E r \in store : UserRead(r) = last.resp.body

\* C6: once register(u, p) has been answered 201, a login with (u, p) is answered
\* 200 with a token of type "bearer", GET /me with that token before its expiry is
\* answered 200 with the id and username of the record the registration created,
\* and a further registration of u is answered 400.
C6_RegisterLoginMe ==
    [][/\ \A r \in store : r \in store'
       /\ \A r \in store', q \in store' : r.username = q.username => r = q
       /\ (last' /= last /\ last'.op = "create" /\ last'.resp.status = 201) =>
             \E r \in store' \ store :
                /\ last'.resp.body = UserRead(r)
                /\ r.username = last'.username
                /\ r.hashed_password \in hash_password(last'.password)
       /\ (last' /= last /\ last'.op = "create" /\ pending' = pending
             /\ Rows(store, last'.username) /= {}) => last'.resp.status = 400
       /\ (last' /= last /\ last'.op = "login"
             /\ \E r \in Rows(store, last'.username) :
                   r.hashed_password \in hash_password(last'.password)) =>
             /\ last'.resp.status = 200
             /\ last'.resp.body.kind = "Token"
             /\ last'.resp.body.token_type = "bearer"
             /\ last'.resp.body.access_token \in issued'
       /\ (last' /= last /\ last'.op = "me" /\ last'.token \in issued
             /\ clock <= last'.token.exp) =>
             /\ last'.resp.status = 200
             /\ \E r \in Rows(store, last'.token.sub) : last'.resp.body = UserRead(r)]_vars

C6_Witness ==
    /\ last.op = "me"
    /\ last.token \in issued
    /\ last.resp.status = 200
    /\ last.resp.body.username = "alice"
    /\ last.resp.body.id = 2

\* C7: every failure of get_current_user on a protected request is answered 401.
C7_EveryFailureIs401 ==
    (last.op = "me" /\ last.resp.status /= 200) => last.resp.status = 401

\* C7 as amended: a failure of the token itself (missing, malformed, wrongly
\* signed, expired, or without a subject) is answered 401; the one other failure,
\* a valid token whose subject has no stored user, is answered 404; no failing
\* protected request gets any other status.
C7_Failures401Or404 ==
    (last.op = "me" /\ last.resp.status /= 200) =>
        \/ /\ last.resp.status = 401
           /\ ~TokenValid(last.token, last.now) \/ last.token.sub = NoSub
        \/ /\ last.resp.status = 404
           /\ TokenValid(last.token, last.now)
           /\ last.token.sub \in Usernames

C7_Witness ==
    /\ last.op = "me"
    /\ last.resp.status = 404
    /\ last.token \notin issued
    /\ last.now > 0

\* C8: login calls create_access_token only when authenticate_user returned a
\* user, with that user's username as subject and ACCESS_TOKEN_EXPIRE_MINUTES (30)
\* as ttl; a login whose authentication failed returns no token, and no other
\* operation issues one.
C8_TokenOnlyAfterAuthentication ==
    [][/\ (last' /= last /\ last'.op = "login") =>
             LET tok == last'.resp.body.access_token
             IN  IF \E r \in Rows(store, last'.username) :
                       r.hashed_password \in hash_password(last'.password)
                 THEN /\ last'.resp.body.kind = "Token"
                      /\ SignedWithSecret(tok)
                      /\ tok.sub = last'.username
                      /\ tok.exp = clock + ACCESS_TOKEN_EXPIRE_MINUTES
                      /\ ACCESS_TOKEN_EXPIRE_MINUTES = 30
                      /\ issued' = issued \cup {tok}
                 ELSE /\ last'.resp.body.kind /= "Token"
                      /\ issued' = issued
       /\ issued' /= issued => (last' /= last /\ last'.op = "login")
       /\ last'.resp.body.kind = "Token" => last'.op = "login"]_vars

C8_Witness ==
    /\ last.op = "login"
    /\ last.resp.status = 200
    /\ last.now > 0
    /\ last.resp.body.access_token.exp = last.now + 30
    /\ Cardinality(issued) > 1

\* C9: an issued token has no server-side state and is never revoked: while the
\* account of its subject exists it resolves at every request up to its expiry,
\* whatever requests came in between, and after its expiry it is rejected at
\* every request; the answer is a function of token, time and store.
C9_ValidUntilExpiry ==
    [][/\ clock' >= clock
       /\ issued \subseteq issued'
       /\ (last' /= last /\ last'.op = "me" /\ last'.token \in issued) =>
             LET t == last'.token
             IN  /\ clock > t.exp => last'.resp.status = 401
                 /\ (clock <= t.exp /\ Rows(store, t.sub) /= {}) =>
                       /\ last'.resp.status = 200
                       /\ last'.resp.body.username = t.sub]_vars

C9_Witness ==
    /\ last.op = "me"
    /\ last.token \in issued
    /\ last.now > last.token.exp
    /\ last.resp.status = 401
    /\ Cardinality(issued) > 1

\* C10: on a malformed stored hash verify_password raises instead of returning
\* False and authenticate_user lets the error through instead of returning None
\* (the login is then no 401); on a well-formed hash that does not match,
\* verify_password returns False and does not raise.
C10_MalformedHashIsAnError ==
    /\ \A r \in store, p \in Passwords :
          LET h == r.hashed_password
              v == verify_password(p, h)
              a == authenticate_user(store, r.username, p)
          IN  /\ h \in MalformedHashes => (v.raised /\ a.raised)
              /\ (h \notin MalformedHashes /\ h \notin hash_password(p)) =>
                    /\ ~v.raised /\ ~v.value
                    /\ a = [raised |-> FALSE, user |-> NoneUser]
    /\ (last.op = "login"
          /\ \E r \in Rows(store, last.username) : r.hashed_password \in MalformedHashes)
       => last.resp = InternalServerError

C10_Witness ==
    /\ last.op = "login"
    /\ last.resp.status = 500
    /\ \E r \in Rows(store, last.username) : r.hashed_password.scheme = "md5_crypt"

\* C11: authentication and identity resolution only read: login and GET /me,
\* succeeding or failing, leave the store as it is; the store changes only when
\* create_user is answered 201, by exactly the one credential that answer
\* describes, and a create_user answered 400 leaves it as it is.
C11_OnlyCreateWritesTheStore ==
    [][/\ (last' /= last /\ last'.op \in {"login", "me"}) => store' = store
       /\ (last' /= last /\ last'.op = "create" /\ last'.resp.status /= 201) =>
             store' = store
       /\ store' /= store =>
             /\ last' /= last
             /\ last'.op = "create"
             /\ last'.resp.status = 201
             /\ \E r \in store' \ store :
                   /\ store' = store \cup {r}
                   /\ last'.resp.body = UserRead(r)
                   /\ Rows(store, r.username) = {}]_vars

C11_Witness ==
    /\ last.op = "create"
    /\ last.resp.status = 400
    /\ Cardinality(store) = 2
    /\ issued /= {}

\* what the password column would hold had the plaintext been stored as it came
PlaintextStored(password) ==
    [scheme |-> "plaintext", salt |-> "", digest |-> <<password>>]

\* the response carries an id and a username, or a token, or a fixed message,
\* and nothing else
ExposesNoSecret(resp) ==
    /\ DOMAIN resp = {"status", "detail", "headers", "body"}
    /\ resp.detail \notin Passwords
    /\ resp.headers \notin Passwords
    /\ \/ resp.body = NoBody
       \/ /\ resp.body.kind = "UserRead"
          /\ DOMAIN resp.body = {"kind", "id", "username"}
          /\ resp.body.username \in Usernames \ Passwords
          /\ resp.body.id \in Nat
       \/ /\ resp.body.kind = "Token"
          /\ DOMAIN resp.body = {"kind", "access_token", "token_type"}
          /\ resp.body.token_type = "bearer"
          /\ DOMAIN resp.body.access_token = {"kind", "sub", "exp", "sig"}
          /\ resp.body.access_token.sub \in Usernames \ Passwords
          /\ DOMAIN resp.body.access_token.sig = {"sub", "exp", "key", "alg", "flipped"}

\* C12: every stored password field is an output of hash_password for the
\* password given at registration, never that plaintext, and stays what it was;
\* no response (register, GET /me, login) carries the plaintext or the stored
\* hash: a response exposes an id and a username, or the token.
C12_PasswordsStoredHashedNeverExposed ==
    [][/\ \A r \in store' \ store :
             /\ last'.op = "create"
             /\ r.username = last'.username
             /\ r.hashed_password \in hash_password(last'.password)
             /\ r.hashed_password /= PlaintextStored(last'.password)
       /\ \A r \in store' :
             /\ r.hashed_password \in UNION {hash_password(p) : p \in Passwords}
             /\ r.hashed_password \notin {PlaintextStored(p) : p \in Passwords}
       /\ \A r \in store : r \in store'
       /\ ExposesNoSecret(last'.resp)]_vars

C12_Witness ==
    /\ last.op = "me"
    /\ last.resp.status = 200
    /\ \E r \in store :
          /\ UserRead(r) = last.resp.body
          /\ r.hashed_password = hash_password_with("hunter2", "saltB")

\* C13: create_access_token(subject, ttl) sets the expiry claim to the issue
\* time plus the ttl passed, a zero ttl included; ACCESS_TOKEN_EXPIRE_MINUTES is
\* used only when no ttl is passed.
C13_ExpiryIsIssueTimePlusTtl ==
    codec.state /= "none" =>
        /\ codec.token.sub = codec.subject
        /\ codec.token.exp =
              codec.at + (IF codec.ttl = NoTtl THEN ACCESS_TOKEN_EXPIRE_MINUTES
                                               ELSE codec.ttl)

\* C14: a correctly signed, unexpired token without a "sub" claim is answered 401
\* "Invalid token payload": the 401 raised inside the try block is not replaced
\* by the JWTError handler's answer, and the store is not asked about an absent
\* username (whose answer would be the 404 of a user not found).
C14_MissingSubjectIs401 ==
    (/\ last.op = "me"
     /\ TokenValid(last.token, last.now)
     /\ last.token.sub = NoSub) =>
        last.resp = Response(401, "Invalid token payload", NoHeaders, NoBody)

C14_Witness ==
    /\ last.op = "me"
    /\ TokenValid(last.token, last.now)
    /\ last.token.sub = NoSub
    /\ last.resp.status = 401
    /\ Cardinality(store) = 2

\* C15: a token names a username, not an account record: GET /me with an issued,
\* unexpired token is answered 404 while no account has its subject's username
\* (the account was removed), and with the id and username of whichever account
\* holds that username at the time of the request otherwise, a later account
\* created under the same username included, without a new login.
C15_TokenFollowsTheUsername ==
    [][(last'.op = "me" /\ ReadMe(last'.token) /\ last'.token \in issued
          /\ clock <= last'.token.exp) =>
          LET t == last'.token
          IN  IF Rows(store, t.sub) = {}
              THEN last'.resp.status = 404
              ELSE /\ last'.resp.status = 200
                   /\ \E r \in Rows(store, t.sub) : last'.resp.body = UserRead(r)]_vars

C15_Witness ==
    /\ last.op = "me"
    /\ last.token \in issued
    /\ last.now <= last.token.exp
    /\ last.resp.status = 404
    /\ last.now > 0

====
